---- MODULE Spec2Model ----
(***************************************************************************)
(* Operation layer of the name-registration protocol: the ANNOUNCE,        *)
(* NAME_PREORDER and NAME_UPDATE codecs (build / parse), their output      *)
(* layouts (make_outputs), fee validators (get_fees) and the request       *)
(* assemblers (state_transition / broadcast).                              *)
(*                                                                         *)
(* Text is a sequence of one-character strings, a byte buffer a sequence   *)
(* of numbers 0..255.  Python's None is the value None below.              *)
(***************************************************************************)
EXTENDS Integers, Sequences, FiniteSets, TLC

VARIABLES fn, opcode, args, pc, locals, calls, ret

vars == <<fn, opcode, args, pc, locals, calls, ret>>

(***************************************************************************)
(* Bounds of the model                                                     *)
(***************************************************************************)
Slack == 1       \* lengths tried around every fixed field length: L-Slack..L+Slack
MaxInputs == 2   \* longest input list handed over by the input source
MaxOutputs == 4  \* longest observed output list
NKeys == 2       \* number of distinct key pairs

(***************************************************************************)
(* Process-wide configuration                                              *)
(***************************************************************************)
DEFAULT_DUST_FEE == 5500
DEFAULT_OP_RETURN_FEE == 10000
NAME_SCHEME_LEN == 3

LENGTHS == [preorder_name_hash |-> 20, consensus_hash |-> 16, name_hash |-> 16,
            data_hash |-> 20, update_hash |-> 20, blockchain_id_name |-> 37]

BLOCKSTACK_BURN_ADDRESS == <<"burn", 0>>

MAGIC_BYTES == <<"6", "9", "6", "4">>

OpcodeHex(op) ==
    CASE op = "ANNOUNCE" -> <<"2", "3">>
      [] op = "NAME_PREORDER" -> <<"3", "f">>
      [] op = "NAME_UPDATE" -> <<"2", "b">>

None == <<"None">>

(***************************************************************************)
(* Results of a call                                                       *)
(***************************************************************************)
Pending == [status |-> "pending", val |-> <<>>]
Ok(v) == [status |-> "ok", val |-> v]
Raise(reason) == [status |-> "raise", val |-> reason]
ParseFailure == [status |-> "none", val |-> <<>>]
Sentinel == [status |-> "sentinel", val |-> <<>>]

(***************************************************************************)
(* Text and bytes                                                          *)
(***************************************************************************)
HexDigits == <<"0", "1", "2", "3", "4", "5", "6", "7",
               "8", "9", "a", "b", "c", "d", "e", "f">>

UpperHex == {"A", "B", "C", "D", "E", "F"}

Lower(c) ==
    CASE c = "A" -> "a" [] c = "B" -> "b" [] c = "C" -> "c"
      [] c = "D" -> "d" [] c = "E" -> "e" [] c = "F" -> "f"
      [] OTHER -> c

LowerStr(s) == [i \in 1..Len(s) |-> Lower(s[i])]

IsHexChar(c) == (\E i \in 1..16 : HexDigits[i] = c) \/ c \in UpperHex

HexVal(c) == (CHOOSE i \in 1..16 : HexDigits[i] = Lower(c)) - 1

is_hex(s) == s # None /\ Len(s) > 0 /\ \A i \in 1..Len(s) : IsHexChar(s[i])

hexlify(b) ==
    [i \in 1..(2 * Len(b)) |->
        IF i % 2 = 1 THEN HexDigits[(b[(i + 1) \div 2] \div 16) + 1]
                     ELSE HexDigits[(b[i \div 2] % 16) + 1]]

unhexlify(h) ==
    [i \in 1..(Len(h) \div 2) |-> 16 * HexVal(h[2 * i - 1]) + HexVal(h[2 * i])]

B40_CHARS ==
    {"0", "1", "2", "3", "4", "5", "6", "7", "8", "9",
     "a", "b", "c", "d", "e", "f", "g", "h", "i", "j", "k", "l", "m",
     "n", "o", "p", "q", "r", "s", "t", "u", "v", "w", "x", "y", "z",
     "-", "_", ".", "+"}

is_b40(s) == s # None /\ \A i \in 1..Len(s) : s[i] \in B40_CHARS

Contains(s, c) == \E i \in 1..Len(s) : s[i] = c

Count(s, c) == Cardinality({i \in 1..Len(s) : s[i] = c})

(***************************************************************************)
(* Hashing primitives: deterministic, lower-case hex of a fixed length     *)
(***************************************************************************)
DigestHex(seed, nbytes) ==
    [i \in 1..(2 * nbytes) |->
        IF i % 2 = 1 THEN HexDigits[(seed % 16) + 1]
                     ELSE HexDigits[((seed \div 16) % 16) + 1]]

TextSeed(s) == IF s = None THEN 0 ELSE Len(s) + 7 * Count(s, "a") + 3 * Count(s, ".")

hash_name(name, script_pubkey, register_addr) ==
    DigestHex(TextSeed(name) + 31 * script_pubkey[2] + 17 * register_addr[2], 20)

hash256_trunc128(text) == DigestHex(TextSeed(text) + 5, 16)

(***************************************************************************)
(* Wire format                                                             *)
(***************************************************************************)
blockstack_script_to_hex(op, fields) ==
    IF Len(fields) = 1 THEN OpcodeHex(op) \o fields[1]
    ELSE OpcodeHex(op) \o fields[1] \o fields[2]

add_magic_bytes(hex_script) == MAGIC_BYTES \o hex_script

\* the 3-byte frame taken off a built payload; fails for a payload that is
\* not hex, shorter than the frame or not starting with the magic
strip_frame(payload) ==
    IF ~is_hex(payload) \/ Len(payload) % 2 # 0 \/ Len(payload) < 6 THEN ParseFailure
    ELSE IF SubSeq(LowerStr(payload), 1, 4) # MAGIC_BYTES THEN ParseFailure
    ELSE Ok(SubSeq(unhexlify(payload), 4, Len(payload) \div 2))

(***************************************************************************)
(* Operation codec: build                                                  *)
(***************************************************************************)
announce_build(message_hash) ==
    IF message_hash = None THEN Raise("TypeError")
    ELSE IF Len(message_hash) # 40 THEN Raise("Invalid hash: not 20 bytes")
    ELSE IF ~is_hex(message_hash) THEN Raise("Invalid hash: not hex")
    ELSE Ok(add_magic_bytes(blockstack_script_to_hex("ANNOUNCE", <<message_hash>>)))

preorder_build(name, script_pubkey, register_addr, consensus_hash, name_hash) ==
    IF name_hash = None
    THEN IF ~is_b40(name) \/ Contains(name, "+") \/ Count(name, ".") > 1
         THEN Raise("Name has non-base-38 characters")
         ELSE IF NAME_SCHEME_LEN + Len(name) > LENGTHS.blockchain_id_name
         THEN Raise("Name is too long")
         ELSE Ok(add_magic_bytes(blockstack_script_to_hex("NAME_PREORDER",
                    <<hash_name(name, script_pubkey, register_addr), consensus_hash>>)))
    ELSE Ok(add_magic_bytes(blockstack_script_to_hex("NAME_PREORDER",
                    <<name_hash, consensus_hash>>)))

\* TRUE when the test returns True, FALSE when it raises
update_sanity_test(name, consensus_hash, data_hash) ==
    IF name # None /\ (~is_b40(name) \/ Contains(name, "+") \/ Count(name, ".") > 1)
    THEN FALSE
    ELSE IF data_hash # None /\ ~is_hex(data_hash) THEN FALSE
    ELSE IF data_hash = None THEN FALSE
    ELSE IF Len(data_hash) # 2 * LENGTHS.update_hash THEN FALSE
    ELSE TRUE

update_build(name, consensus_hash, data_hash) ==
    IF ~update_sanity_test(name, consensus_hash, data_hash)
    THEN Raise("Invalid update data")
    ELSE IF name = None THEN Raise("TypeError")
    ELSE Ok(add_magic_bytes(blockstack_script_to_hex("NAME_UPDATE",
                <<hash256_trunc128(name \o consensus_hash), data_hash>>)))

(***************************************************************************)
(* Operation codec: parse                                                  *)
(***************************************************************************)

\* mutant of announce_parse: a buffer longer than the hash is accepted
announce_parse_at_least(bin_payload) ==
    LET message_hash == hexlify(bin_payload)
    IN  IF ~is_hex(message_hash) THEN ParseFailure
        ELSE IF Len(message_hash) < 40 THEN ParseFailure
        ELSE Ok([opcode |-> "ANNOUNCE", message_hash |-> message_hash])

announce_parse(bin_payload) ==
    LET message_hash == hexlify(bin_payload)
    IN  IF ~is_hex(message_hash) THEN ParseFailure
        ELSE IF Len(message_hash) # 40 THEN ParseFailure
        ELSE Ok([opcode |-> "ANNOUNCE", message_hash |-> message_hash])


\* mutant of preorder_parse: the two fields split at the consensus hash's length
preorder_parse_split_early(bin_payload) ==
    IF Len(bin_payload) # LENGTHS.preorder_name_hash + LENGTHS.consensus_hash
    THEN ParseFailure
    ELSE Ok([opcode |-> "NAME_PREORDER",
             preorder_name_hash |->
                 hexlify(SubSeq(bin_payload, 1, LENGTHS.consensus_hash)),
             consensus_hash |->
                 hexlify(SubSeq(bin_payload, LENGTHS.consensus_hash + 1,
                                Len(bin_payload)))])

preorder_parse(bin_payload) ==
    IF Len(bin_payload) # LENGTHS.preorder_name_hash + LENGTHS.consensus_hash
    THEN ParseFailure
    ELSE Ok([opcode |-> "NAME_PREORDER",
             preorder_name_hash |->
                 hexlify(SubSeq(bin_payload, 1, LENGTHS.preorder_name_hash)),
             consensus_hash |->
                 hexlify(SubSeq(bin_payload, LENGTHS.preorder_name_hash + 1,
                                Len(bin_payload)))])

update_parse(bin_payload) ==
    IF Len(bin_payload) # LENGTHS.name_hash + LENGTHS.data_hash
    THEN ParseFailure
    ELSE LET name_hash == hexlify(SubSeq(bin_payload, 1, LENGTHS.name_hash))
             update_hash == hexlify(SubSeq(bin_payload, LENGTHS.name_hash + 1,
                                           Len(bin_payload)))
         IN  IF ~update_sanity_test(None, name_hash, update_hash)
             THEN ParseFailure
             ELSE Ok([opcode |-> "NAME_UPDATE", name_hash |-> name_hash,
                      update_hash |-> update_hash])

(***************************************************************************)
(* Transaction outputs                                                     *)
(***************************************************************************)
NoAddr == <<"none", 0>>

AddrOf(pubk) == <<"addr", pubk>>

make_op_return_script(data, format) ==
    [type |-> "nulldata", data |-> <<format, data>>, addr |-> NoAddr]

make_pay_to_address_script(address) ==
    [type |-> "p2pkh", data |-> <<>>, addr |-> address]

tx_output_is_op_return(output) == output.script_hex.type = "nulldata"

script_hex_to_address(script) ==
    IF script.type = "p2pkh" THEN script.addr ELSE NoAddr

RECURSIVE SumValues(_)
SumValues(inputs) ==
    IF inputs = <<>> THEN 0 ELSE Head(inputs) + SumValues(Tail(inputs))

calculate_change_amount(inputs, send_amount, fee) ==
    SumValues(inputs) - send_amount - fee

(***************************************************************************)
(* Output layout builder                                                   *)
(***************************************************************************)
announce_make_outputs(data, inputs, change_address, pay_fee) ==
    LET dust_fee == IF pay_fee
                    THEN (Len(inputs) + 1) * DEFAULT_DUST_FEE + DEFAULT_OP_RETURN_FEE
                    ELSE 0
        op_fee == IF pay_fee THEN DEFAULT_DUST_FEE ELSE 0
    IN  << [script_hex |-> make_op_return_script(data, "hex"), value |-> 0],
           [script_hex |-> make_pay_to_address_script(change_address),
            value |-> calculate_change_amount(inputs, op_fee, dust_fee)] >>


\* mutant of update_make_outputs: the change output is laid out first
update_make_outputs_change_first(data, inputs, change_address, pay_fee) ==
    LET dust_fee == IF pay_fee
                    THEN (Len(inputs) + 1) * DEFAULT_DUST_FEE + DEFAULT_OP_RETURN_FEE
                    ELSE 0
        op_fee == IF pay_fee THEN DEFAULT_DUST_FEE ELSE 0
    IN  << [script_hex |-> make_pay_to_address_script(change_address),
            value |-> calculate_change_amount(inputs, op_fee, dust_fee)],
           [script_hex |-> make_op_return_script(data, "hex"), value |-> 0] >>

update_make_outputs(data, inputs, change_address, pay_fee) ==
    LET dust_fee == IF pay_fee
                    THEN (Len(inputs) + 1) * DEFAULT_DUST_FEE + DEFAULT_OP_RETURN_FEE
                    ELSE 0
        op_fee == IF pay_fee THEN DEFAULT_DUST_FEE ELSE 0
    IN  << [script_hex |-> make_op_return_script(data, "hex"), value |-> 0],
           [script_hex |-> make_pay_to_address_script(change_address),
            value |-> calculate_change_amount(inputs, op_fee, dust_fee)] >>


\* mutant of preorder_make_outputs: the requested fee is burnt as it is, and
\* the dust fee counts one output less
preorder_make_outputs_raw_fee(data, inputs, sender_addr, fee, format) ==
    LET op_fee == fee
        dust_fee == (Len(inputs) + 1) * DEFAULT_DUST_FEE + DEFAULT_OP_RETURN_FEE
    IN  << [script_hex |-> make_op_return_script(data, format), value |-> 0],
           [script_hex |-> make_pay_to_address_script(sender_addr),
            value |-> calculate_change_amount(inputs, op_fee, dust_fee)],
           [script_hex |-> make_pay_to_address_script(BLOCKSTACK_BURN_ADDRESS),
            value |-> op_fee] >>

preorder_make_outputs(data, inputs, sender_addr, fee, format) ==
    LET op_fee == IF fee > DEFAULT_DUST_FEE THEN fee ELSE DEFAULT_DUST_FEE
        dust_fee == (Len(inputs) + 2) * DEFAULT_DUST_FEE + DEFAULT_OP_RETURN_FEE
        bill == op_fee
    IN  << [script_hex |-> make_op_return_script(data, format), value |-> 0],
           [script_hex |-> make_pay_to_address_script(sender_addr),
            value |-> calculate_change_amount(inputs, bill, dust_fee)],
           [script_hex |-> make_pay_to_address_script(BLOCKSTACK_BURN_ADDRESS),
            value |-> op_fee] >>

(***************************************************************************)
(* Fee validator                                                           *)
(***************************************************************************)
announce_get_fees(inputs, outputs) ==
    IF Len(outputs) # 2 THEN Sentinel
    ELSE IF ~tx_output_is_op_return(outputs[1]) THEN Sentinel
    ELSE IF outputs[1].value # 0 THEN Sentinel
    ELSE IF script_hex_to_address(outputs[2].script_hex) = NoAddr THEN Sentinel
    ELSE Ok(<<(Len(inputs) + 1) * DEFAULT_DUST_FEE + DEFAULT_OP_RETURN_FEE, 0>>)

update_get_fees(inputs, outputs) ==
    IF Len(outputs) # 2 THEN Sentinel
    ELSE IF ~tx_output_is_op_return(outputs[1]) THEN Sentinel
    ELSE IF outputs[1].value # 0 THEN Sentinel
    ELSE IF script_hex_to_address(outputs[2].script_hex) = NoAddr THEN Sentinel
    ELSE Ok(<<(Len(inputs) + 1) * DEFAULT_DUST_FEE + DEFAULT_OP_RETURN_FEE, 0>>)


\* mutant of preorder_get_fees: any address is taken for the burn address
preorder_get_fees_any_burn(inputs, outputs) ==
    IF Len(outputs) # 3 THEN Sentinel
    ELSE IF ~tx_output_is_op_return(outputs[1]) THEN Sentinel
    ELSE IF outputs[1].value # 0 THEN Sentinel
    ELSE IF script_hex_to_address(outputs[2].script_hex) = NoAddr THEN Sentinel
    ELSE IF script_hex_to_address(outputs[3].script_hex) = NoAddr THEN Sentinel
    ELSE Ok(<<(Len(inputs) + 2) * DEFAULT_DUST_FEE + DEFAULT_OP_RETURN_FEE,
              outputs[3].value>>)

preorder_get_fees(inputs, outputs) ==
    IF Len(outputs) # 3 THEN Sentinel
    ELSE IF ~tx_output_is_op_return(outputs[1]) THEN Sentinel
    ELSE IF outputs[1].value # 0 THEN Sentinel
    ELSE IF script_hex_to_address(outputs[2].script_hex) = NoAddr THEN Sentinel
    ELSE LET addr_hash == script_hex_to_address(outputs[3].script_hex)
         IN  IF addr_hash = NoAddr THEN Sentinel
             ELSE IF addr_hash # BLOCKSTACK_BURN_ADDRESS THEN Sentinel
             ELSE Ok(<<(Len(inputs) + 2) * DEFAULT_DUST_FEE + DEFAULT_OP_RETURN_FEE,
                       outputs[3].value>>)

(***************************************************************************)
(* Keys                                                                    *)
(***************************************************************************)
PrivateKeys == {<<"priv", k>> : k \in 1..NKeys}

PublicKeys == {<<"pub", k>> : k \in 1..NKeys}

\* ECPrivateKey( private_key ).public_key()
PublicKeyOf(private_key) == <<"pub", private_key[2]>>

get_script_pubkey(public_key) == <<"script", public_key[2]>>

(***************************************************************************)
(* Inputs tried                                                            *)
(***************************************************************************)
Near(len) == (len - Slack)..(len + Slack)

CharPairs == {<<"a", "7">>, <<"B", "a">>, <<"g", "a">>, <<"a", "g">>}

HexPat(p, n) == [i \in 1..n |-> IF i % 2 = 1 THEN p[1] ELSE p[2]]

HashLens == {0} \cup Near(2 * LENGTHS.consensus_hash) \cup Near(2 * LENGTHS.data_hash)

HashTexts == {HexPat(p, n) : p \in CharPairs, n \in HashLens}

NameKinds == {"plain", "dot", "twodot", "plus", "upper"}

NameLens == {6} \cup Near(LENGTHS.blockchain_id_name - NAME_SCHEME_LEN)

NameOf(kind, n) ==
    [i \in 1..n |->
        CASE kind = "dot" /\ i = 4 -> "."
          [] kind = "twodot" /\ i \in {2, 4} -> "."
          [] kind = "plus" /\ i = 2 -> "+"
          [] kind = "upper" /\ i = 2 -> "A"
          [] OTHER -> "a"]

Names == {NameOf(kind, n) : kind \in NameKinds, n \in NameLens}

BytePairs == {<<0, 0>>, <<161, 161>>, <<255, 16>>}

BufLens == {0, 1} \cup Near(LENGTHS.data_hash)
                  \cup Near(LENGTHS.preorder_name_hash + LENGTHS.consensus_hash)

Buffers == {HexPat(p, n) : p \in BytePairs, n \in BufLens}

InputValues == {6000, 50000}

InputLists == UNION {[1..n -> InputValues] : n \in 0..MaxInputs}

Fees == {1000, DEFAULT_DUST_FEE, 20000}

Addresses == {<<"addr", k>> : k \in 1..NKeys}

OtherScript == [type |-> "other", data |-> <<>>, addr |-> NoAddr]

ObservedOutputs ==
    { [script_hex |-> make_op_return_script(<<>>, "hex"), value |-> 0],
      [script_hex |-> make_op_return_script(<<>>, "hex"), value |-> DEFAULT_DUST_FEE],
      [script_hex |-> make_pay_to_address_script(<<"addr", 1>>), value |-> DEFAULT_DUST_FEE],
      [script_hex |-> make_pay_to_address_script(BLOCKSTACK_BURN_ADDRESS),
       value |-> DEFAULT_DUST_FEE],
      [script_hex |-> OtherScript, value |-> DEFAULT_DUST_FEE] }

OutputLists == UNION {[1..n -> ObservedOutputs] : n \in 0..MaxOutputs}

\* a small choice of request fields for the assemblers
RequestHashes == {None, HexPat(<<"a", "7">>, 40), HexPat(<<"B", "a">>, 40),
                  HexPat(<<"a", "7">>, 38), HexPat(<<"g", "a">>, 40)}

RequestNames == {NameOf("dot", 6), NameOf("plus", 6), NameOf("twodot", 6),
                 NameOf("upper", 6),
                 NameOf("dot", LENGTHS.blockchain_id_name - NAME_SCHEME_LEN + 1)}

RequestConsensus == {HexPat(<<"a", "7">>, 32), HexPat(<<"a", "7">>, 30)}

(***************************************************************************)
(* State                                                                   *)
(***************************************************************************)
NoArgs ==
    [name |-> None, name_hash |-> None, hash |-> None, consensus_hash |-> None,
     script_pubkey |-> None, register_addr |-> None,
     private_key |-> None, public_key |-> None, tx_only |-> FALSE,
     fee |-> 0, pay_fee |-> TRUE, format |-> "hex", data |-> None,
     inputs |-> <<>>, outputs |-> <<>>, bin_payload |-> <<>>, address |-> None]

NoLocals ==
    [pay_fee |-> TRUE, tx_only |-> FALSE, pubk |-> None, script_pubkey |-> None,
     from_address |-> None, inputs |-> <<>>, nulldata |-> None, outputs |-> <<>>,
     parsed |-> Pending, fees |-> Pending]

Opcodes == {"ANNOUNCE", "NAME_PREORDER", "NAME_UPDATE"}

InitBuild ==
    /\ fn = "build"
    /\ \/ /\ opcode = "NAME_UPDATE"
          /\ \E n \in Names \cup {None}, c \in HashTexts, h \in HashTexts \cup {None} :
                args = [NoArgs EXCEPT !.name = n, !.consensus_hash = c, !.hash = h]
       \/ /\ opcode = "NAME_PREORDER"
          /\ \E n \in Names, c \in HashTexts :
                \/ \E h \in HashTexts :
                      args = [NoArgs EXCEPT !.name = n, !.consensus_hash = c,
                                            !.name_hash = h]
                \/ \E k \in PublicKeys, r \in Addresses :
                      args = [NoArgs EXCEPT !.name = n, !.consensus_hash = c,
                                            !.script_pubkey = get_script_pubkey(k),
                                            !.register_addr = r]
       \/ /\ opcode = "ANNOUNCE"
          /\ \E h \in HashTexts \cup {None} : args = [NoArgs EXCEPT !.hash = h]

InitParse ==
    /\ fn = "parse"
    /\ opcode \in Opcodes
    /\ \E b \in Buffers : args = [NoArgs EXCEPT !.bin_payload = b]

\* a payload as build returns it, to be laid out
SamplePayload(op) ==
    CASE op = "ANNOUNCE" -> announce_build(HexPat(<<"a", "7">>, 40)).val
      [] op = "NAME_PREORDER" ->
            preorder_build(NameOf("dot", 6), <<"script", 1>>, <<"addr", 1>>,
                           HexPat(<<"a", "7">>, 32), None).val
      [] op = "NAME_UPDATE" ->
            update_build(NameOf("dot", 6), HexPat(<<"a", "7">>, 32),
                         HexPat(<<"a", "7">>, 40)).val

InitMakeOutputs ==
    /\ fn = "make_outputs"
    /\ \E i \in InputLists, a \in Addresses :
          \/ /\ opcode \in {"ANNOUNCE", "NAME_UPDATE"}
             /\ \E pf \in BOOLEAN :
                   args = [NoArgs EXCEPT !.data = SamplePayload(opcode), !.inputs = i,
                                         !.address = a, !.pay_fee = pf]
          \/ /\ opcode = "NAME_PREORDER"
             /\ \E f \in Fees, fmt \in {"bin", "hex"} :
                   args = [NoArgs EXCEPT !.data = SamplePayload(opcode), !.inputs = i,
                                         !.address = a, !.fee = f, !.format = fmt]

InitGetFees ==
    /\ fn = "get_fees"
    /\ opcode \in Opcodes
    /\ \E i \in InputLists, o \in OutputLists :
          args = [NoArgs EXCEPT !.inputs = i, !.outputs = o]

InitRequest ==
    /\ fn \in {"state_transition", "broadcast"}
    /\ opcode \in Opcodes
    /\ \E priv \in PrivateKeys \cup {None}, pub \in PublicKeys \cup {None},
          i \in InputLists, t \in BOOLEAN, h \in RequestHashes :
          /\ fn = "state_transition" => t = FALSE
          /\ \/ /\ opcode = "ANNOUNCE"
                /\ args = [NoArgs EXCEPT !.hash = h, !.private_key = priv,
                                         !.public_key = pub, !.inputs = i,
                                         !.tx_only = t]
             \/ /\ opcode = "NAME_UPDATE"
                /\ \E n \in RequestNames, c \in RequestConsensus :
                      args = [NoArgs EXCEPT !.name = n, !.hash = h,
                                            !.consensus_hash = c,
                                            !.private_key = priv, !.public_key = pub,
                                            !.inputs = i, !.tx_only = t]
             \/ /\ opcode = "NAME_PREORDER"
                /\ h = None
                /\ \E n \in RequestNames, c \in RequestConsensus,
                      r \in Addresses, f \in Fees :
                      args = [NoArgs EXCEPT !.name = n, !.consensus_hash = c,
                                            !.register_addr = r, !.fee = f,
                                            !.private_key = priv, !.public_key = pub,
                                            !.inputs = i, !.tx_only = t]

Init ==
    /\ pc = "call"
    /\ locals = NoLocals
    /\ calls = <<>>
    /\ ret = Pending
    /\ \/ InitBuild
       \/ InitParse
       \/ InitMakeOutputs
       \/ InitGetFees
       \/ InitRequest

(***************************************************************************)
(* The four-call contract, one call per behaviour                          *)
(***************************************************************************)
Return(r) ==
    /\ ret' = r
    /\ pc' = "done"
    /\ UNCHANGED <<fn, opcode, args, locals, calls>>

AnnounceBuild ==
    /\ pc = "call" /\ fn = "build" /\ opcode = "ANNOUNCE"
    /\ Return(announce_build(args.hash))

PreorderBuild ==
    /\ pc = "call" /\ fn = "build" /\ opcode = "NAME_PREORDER"
    /\ Return(preorder_build(args.name, args.script_pubkey, args.register_addr,
                             args.consensus_hash, args.name_hash))

UpdateBuild ==
    /\ pc = "call" /\ fn = "build" /\ opcode = "NAME_UPDATE"
    /\ Return(update_build(args.name, args.consensus_hash, args.hash))

AnnounceParse ==
    /\ pc = "call" /\ fn = "parse" /\ opcode = "ANNOUNCE"
    /\ Return(announce_parse(args.bin_payload))

PreorderParse ==
    /\ pc = "call" /\ fn = "parse" /\ opcode = "NAME_PREORDER"
    /\ Return(preorder_parse(args.bin_payload))

UpdateParse ==
    /\ pc = "call" /\ fn = "parse" /\ opcode = "NAME_UPDATE"
    /\ Return(update_parse(args.bin_payload))

AnnounceMakeOutputs ==
    /\ pc = "call" /\ fn = "make_outputs" /\ opcode = "ANNOUNCE"
    /\ Return(Ok(announce_make_outputs(args.data, args.inputs, args.address,
                                       args.pay_fee)))

PreorderMakeOutputs ==
    /\ pc = "call" /\ fn = "make_outputs" /\ opcode = "NAME_PREORDER"
    /\ Return(Ok(preorder_make_outputs(args.data, args.inputs, args.address,
                                       args.fee, args.format)))

UpdateMakeOutputs ==
    /\ pc = "call" /\ fn = "make_outputs" /\ opcode = "NAME_UPDATE"
    /\ Return(Ok(update_make_outputs(args.data, args.inputs, args.address,
                                     args.pay_fee)))

AnnounceGetFees ==
    /\ pc = "call" /\ fn = "get_fees" /\ opcode = "ANNOUNCE"
    /\ Return(announce_get_fees(args.inputs, args.outputs))

PreorderGetFees ==
    /\ pc = "call" /\ fn = "get_fees" /\ opcode = "NAME_PREORDER"
    /\ Return(preorder_get_fees(args.inputs, args.outputs))

UpdateGetFees ==
    /\ pc = "call" /\ fn = "get_fees" /\ opcode = "NAME_UPDATE"
    /\ Return(update_get_fees(args.inputs, args.outputs))

(***************************************************************************)
(* Chain replay: what a built payload and a laid-out transaction are read  *)
(* back as                                                                 *)
(***************************************************************************)
Parse(op, bin_payload) ==
    CASE op = "ANNOUNCE" -> announce_parse(bin_payload)
      [] op = "NAME_PREORDER" -> preorder_parse(bin_payload)
      [] op = "NAME_UPDATE" -> update_parse(bin_payload)

GetFees(op, inputs, outputs) ==
    CASE op = "ANNOUNCE" -> announce_get_fees(inputs, outputs)
      [] op = "NAME_PREORDER" -> preorder_get_fees(inputs, outputs)
      [] op = "NAME_UPDATE" -> update_get_fees(inputs, outputs)

ReplayPayload ==
    /\ pc = "done" /\ fn = "build" /\ ret.status = "ok"
    /\ LET body == strip_frame(ret.val)
       IN  locals' = [locals EXCEPT !.parsed =
                         IF body.status = "ok" THEN Parse(opcode, body.val)
                         ELSE ParseFailure]
    /\ pc' = "replayed"
    /\ UNCHANGED <<fn, opcode, args, calls, ret>>

ReplayOutputs ==
    /\ pc = "done" /\ fn = "make_outputs" /\ ret.status = "ok"
    /\ locals' = [locals EXCEPT !.fees = GetFees(opcode, args.inputs, ret.val)]
    /\ pc' = "replayed"
    /\ UNCHANGED <<fn, opcode, args, calls, ret>>

(***************************************************************************)
(* State-transition assembler: state_transition and broadcast, one action  *)
(* per step of a request                                                   *)
(***************************************************************************)
IsRequest == fn \in {"state_transition", "broadcast"}

Fail(reason) ==
    /\ ret' = Raise(reason)
    /\ pc' = "done"

\* mutant of sanity_check: the private key needed for broadcasting is asked
\* for before the two keys are found missing
sanity_check_need_key_first(f, op, a) ==
    LET pay_fee == a.public_key = None
        tx_only == IF f = "broadcast" /\ a.public_key # None THEN TRUE ELSE a.tx_only
        flags == Ok([pay_fee |-> pay_fee, tx_only |-> tx_only])
        hash_check ==
            IF a.hash = None THEN Raise("TypeError")
            ELSE IF Len(a.hash) # 40 THEN Raise("Invalid message hash: not 20 bytes")
            ELSE IF ~is_hex(a.hash) THEN Raise("Invalid message hash: not hex")
            ELSE flags
    IN  IF f = "broadcast" /\ op # "NAME_PREORDER"
           /\ ~tx_only /\ a.private_key = None
        THEN Raise("Need private key for broadcasting")
        ELSE IF a.public_key = None /\ a.private_key = None
        THEN IF op = "NAME_PREORDER"
             THEN Raise("Missing both client public and private key")
             ELSE Raise("Missing both public and private key")
        ELSE IF op = "ANNOUNCE" THEN hash_check
        ELSE flags

\* the checks a request starts with: the flags it derives, or the error raised
sanity_check(f, op, a) ==
    LET pay_fee == a.public_key = None
        tx_only == IF f = "broadcast" /\ a.public_key # None THEN TRUE ELSE a.tx_only
        flags == Ok([pay_fee |-> pay_fee, tx_only |-> tx_only])
        hash_check ==
            IF a.hash = None THEN Raise("TypeError")
            ELSE IF Len(a.hash) # 40 THEN Raise("Invalid message hash: not 20 bytes")
            ELSE IF ~is_hex(a.hash) THEN Raise("Invalid message hash: not hex")
            ELSE flags
    IN  IF a.public_key = None /\ a.private_key = None
        THEN IF op = "NAME_PREORDER"
             THEN Raise("Missing both client public and private key")
             ELSE Raise("Missing both public and private key")
        ELSE IF f = "broadcast" /\ op # "NAME_PREORDER"
                /\ ~tx_only /\ a.private_key = None
        THEN Raise("Need private key for broadcasting")
        ELSE IF op = "ANNOUNCE" THEN hash_check
        ELSE flags

CheckArgs ==
    /\ pc = "call" /\ IsRequest
    /\ LET rc == sanity_check(fn, opcode, args)
       IN  IF rc.status = "raise"
           THEN Fail(rc.val) /\ UNCHANGED locals
           ELSE /\ locals' = [locals EXCEPT !.pay_fee = rc.val.pay_fee,
                                            !.tx_only = rc.val.tx_only]
                /\ pc' = "resolve"
                /\ UNCHANGED ret
    /\ UNCHANGED <<fn, opcode, args, calls>>

\* pubk and, for NAME_PREORDER, the script_pubkey mixed into the name hash;
\* the private-key branch of NAME_PREORDER reads the undefined name public_key
resolve_key(op, a) ==
    IF a.public_key # None
    THEN Ok([pubk |-> a.public_key,
             script_pubkey |-> IF op = "NAME_PREORDER"
                               THEN get_script_pubkey(a.public_key) ELSE None])
    ELSE IF op = "NAME_PREORDER"
    THEN Raise("NameError: name 'public_key' is not defined")
    ELSE Ok([pubk |-> PublicKeyOf(a.private_key), script_pubkey |-> None])

ResolveKey ==
    /\ pc = "resolve" /\ IsRequest
    /\ LET rc == resolve_key(opcode, args)
       IN  IF rc.status = "raise"
           THEN Fail(rc.val) /\ UNCHANGED locals
           ELSE /\ locals' = [locals EXCEPT !.pubk = rc.val.pubk,
                                            !.script_pubkey = rc.val.script_pubkey]
                /\ pc' = "select"
                /\ UNCHANGED ret
    /\ UNCHANGED <<fn, opcode, args, calls>>

\* from_address = pubk.address(); the input source is asked for its inputs
SelectInputs ==
    /\ pc = "select" /\ IsRequest
    /\ LET from_address == AddrOf(locals.pubk[2])
       IN  /\ locals' = [locals EXCEPT !.from_address = from_address,
                                       !.inputs = args.inputs]
           /\ calls' = Append(calls,
                  [op |-> IF fn = "broadcast" THEN "get_unspents" ELSE "get_tx_inputs",
                   arg |-> <<from_address>>])
    /\ pc' = "build"
    /\ UNCHANGED <<fn, opcode, args, ret>>

\* the call of build as the request writes it: every broadcast, and the
\* NAME_PREORDER state_transition, pass a testset keyword build does not take
build_call(f, op, a) ==
    IF f = "broadcast" \/ op = "NAME_PREORDER"
    THEN Raise("TypeError: build() got an unexpected keyword argument 'testset'")
    ELSE IF op = "ANNOUNCE" THEN announce_build(a.hash)
    ELSE update_build(a.name, a.consensus_hash, a.hash)

BuildPayload ==
    /\ pc = "build" /\ IsRequest
    /\ LET rc == build_call(fn, opcode, args)
       IN  IF rc.status = "raise"
           THEN Fail(rc.val) /\ UNCHANGED locals
           ELSE /\ locals' = [locals EXCEPT !.nulldata = rc.val]
                /\ pc' = "layout"
                /\ UNCHANGED ret
    /\ UNCHANGED <<fn, opcode, args, calls>>

layout_call(op, a, l) ==
    CASE op = "ANNOUNCE" ->
            announce_make_outputs(l.nulldata, l.inputs, l.from_address, l.pay_fee)
      [] op = "NAME_UPDATE" ->
            update_make_outputs(l.nulldata, l.inputs, l.from_address, l.pay_fee)
      [] op = "NAME_PREORDER" ->
            preorder_make_outputs(l.nulldata, l.inputs, l.from_address, a.fee, "hex")

LayoutOutputs ==
    /\ pc = "layout" /\ IsRequest
    /\ locals' = [locals EXCEPT !.outputs = layout_call(opcode, args, locals)]
    /\ pc' = "finish"
    /\ UNCHANGED <<fn, opcode, args, calls, ret>>

tx_serialize(inputs, outputs) == <<"unsigned", inputs, outputs>>

tx_serialize_sign(inputs, outputs, private_key) ==
    <<"signed", inputs, outputs, private_key>>

broadcast_transaction(tx) == [transaction_hash |-> tx]

\* what the request hands to the broadcaster: NAME_PREORDER passes the
\* inputs and outputs where the other two pass signed_tx
broadcast_argument(op, l, signed_tx) ==
    IF op = "NAME_PREORDER" THEN <<l.inputs, l.outputs>> ELSE signed_tx

Finish ==
    /\ pc = "finish" /\ IsRequest
    /\ IF fn = "state_transition"
       THEN /\ ret' = Ok([inputs |-> locals.inputs, outputs |-> locals.outputs])
            /\ UNCHANGED calls
       ELSE IF locals.tx_only
       THEN /\ calls' = Append(calls, [op |-> "tx_serialize",
                                       arg |-> <<locals.inputs, locals.outputs>>])
            /\ ret' = Ok([unsigned_tx |-> tx_serialize(locals.inputs, locals.outputs)])
       ELSE LET signed_tx == tx_serialize_sign(locals.inputs, locals.outputs,
                                               args.private_key)
                sent == broadcast_argument(opcode, locals, signed_tx)
            IN  /\ calls' = calls \o
                       << [op |-> "tx_serialize_sign",
                           arg |-> <<locals.inputs, locals.outputs, args.private_key>>],
                          [op |-> "broadcast_transaction", arg |-> <<sent>>] >>
                /\ ret' = Ok([receipt |-> broadcast_transaction(sent),
                              data |-> locals.nulldata])
    /\ pc' = "done"
    /\ UNCHANGED <<fn, opcode, args, locals>>

Next ==
    \/ AnnounceBuild \/ PreorderBuild \/ UpdateBuild
    \/ AnnounceParse \/ PreorderParse \/ UpdateParse
    \/ AnnounceMakeOutputs \/ PreorderMakeOutputs \/ UpdateMakeOutputs
    \/ AnnounceGetFees \/ PreorderGetFees \/ UpdateGetFees
    \/ ReplayPayload \/ ReplayOutputs
    \/ CheckArgs \/ ResolveKey \/ SelectInputs \/ BuildPayload
    \/ LayoutOutputs \/ Finish

Spec == Init /\ [][Next]_vars

(***************************************************************************)
(* Properties                                                              *)
(***************************************************************************)
ValidHex(h, n) == h # None /\ Len(h) = n /\ is_hex(h)

ValidName(n) ==
    /\ n # None
    /\ is_b40(n) /\ ~Contains(n, "+") /\ Count(n, ".") <= 1
    /\ NAME_SCHEME_LEN + Len(n) <= LENGTHS.blockchain_id_name

\* the fixed body length of an opcode, in bytes
BodyLen(op) == IF op = "ANNOUNCE" THEN 20 ELSE 36

\* a field tuple every field of which is as the wire format wants it
ValidFields(op, a) ==
    CASE op = "ANNOUNCE" -> ValidHex(a.hash, 40)
      [] op = "NAME_PREORDER" ->
            /\ ValidHex(a.consensus_hash, 32)
            /\ IF a.name_hash = None THEN ValidName(a.name)
               ELSE ValidHex(a.name_hash, 40)
      [] op = "NAME_UPDATE" ->
            /\ ValidName(a.name)
            /\ ValidHex(a.consensus_hash, 32)
            /\ ValidHex(a.hash, 40)

\* the hash fields build encodes for a field tuple, lower-case, in wire order
EncodedHashes(op, a) ==
    CASE op = "ANNOUNCE" -> <<LowerStr(a.hash)>>
      [] op = "NAME_PREORDER" ->
            << IF a.name_hash = None
               THEN hash_name(a.name, a.script_pubkey, a.register_addr)
               ELSE LowerStr(a.name_hash),
               LowerStr(a.consensus_hash) >>
      [] op = "NAME_UPDATE" ->
            << hash256_trunc128(a.name \o a.consensus_hash), LowerStr(a.hash) >>

\* the hash fields of a parsed record, in wire order
RecordHashes(rec) ==
    CASE rec.opcode = "ANNOUNCE" -> <<rec.message_hash>>
      [] rec.opcode = "NAME_PREORDER" -> <<rec.preorder_name_hash, rec.consensus_hash>>
      [] rec.opcode = "NAME_UPDATE" -> <<rec.name_hash, rec.update_hash>>

\* C1: for every valid field tuple build returns a payload, and the body left
\* after the 3-byte frame parses to a record of the same opcode whose hash
\* fields are, in hex and in wire order, the hash fields build encoded.
C1_RoundTrip ==
    (fn = "build" /\ ValidFields(opcode, args)) =>
        /\ pc = "done" => ret.status = "ok"
        /\ pc = "replayed" =>
              /\ locals.parsed.status = "ok"
              /\ locals.parsed.val.opcode = opcode
              /\ RecordHashes(locals.parsed.val) = EncodedHashes(opcode, args)

C1_Witness ==
    /\ fn = "build" /\ opcode = "NAME_PREORDER" /\ pc = "replayed"
    /\ ValidFields(opcode, args)
    /\ args.name_hash = None
    /\ args.consensus_hash = HexPat(<<"B", "a">>, 32)
    /\ locals.parsed.status = "ok"
    /\ locals.parsed.val.consensus_hash = HexPat(<<"b", "a">>, 32)

\* C2: parse returns a record or the failure value for every buffer, and
\* the failure value whenever the buffer's length is not the opcode's fixed
\* body length (20, 36, 36 bytes).
C2_ParseTotalLengthExact ==
    (fn = "parse" /\ pc = "done") =>
        /\ ret.status \in {"ok", "none"}
        /\ Len(args.bin_payload) # BodyLen(opcode) => ret = ParseFailure
        /\ ret.status = "ok" => ret.val.opcode = opcode

C2_Witness ==
    /\ fn = "parse" /\ pc = "done" /\ opcode = "ANNOUNCE"
    /\ Len(args.bin_payload) = BodyLen(opcode) + 1
    /\ ret = ParseFailure

\* the number of outputs besides the null-data output that pay dust
DustOutputs(op) == IF op = "NAME_PREORDER" THEN 2 ELSE 1

FeePaying(op, a) == op = "NAME_PREORDER" \/ a.pay_fee

\* C3: get_fees accepts every output list make_outputs lays out in fee-paying
\* mode and reports dust_fee = (N + k) * dust_unit + op_return_unit and
\* op_fee = the burn output's value (NAME_PREORDER) or 0.
C3_FeeAgreement ==
    (fn = "make_outputs" /\ pc = "replayed" /\ FeePaying(opcode, args)) =>
        /\ locals.fees.status = "ok"
        /\ locals.fees.val[1] =
              (Len(args.inputs) + DustOutputs(opcode)) * DEFAULT_DUST_FEE
              + DEFAULT_OP_RETURN_FEE
        /\ locals.fees.val[2] =
              IF opcode = "NAME_PREORDER" THEN ret.val[3].value ELSE 0

C3_Witness ==
    /\ fn = "make_outputs" /\ pc = "replayed" /\ opcode = "NAME_UPDATE"
    /\ args.pay_fee /\ Len(args.inputs) = 2
    /\ locals.fees = Ok(<<3 * DEFAULT_DUST_FEE + DEFAULT_OP_RETURN_FEE, 0>>)

\* the cases the fee validator is to reject
Rejected(op, outputs) ==
    \/ Len(outputs) # DustOutputs(op) + 1
    \/ outputs[1].script_hex.type # "nulldata"
    \/ outputs[1].value # 0
    \/ outputs[2].script_hex.type # "p2pkh"
    \/ /\ op = "NAME_PREORDER"
       /\ \/ outputs[3].script_hex.type # "p2pkh"
          \/ outputs[3].script_hex.addr # BLOCKSTACK_BURN_ADDRESS

\* C4: get_fees returns the sentinel exactly when the output count is wrong,
\* output[0] is not a zero-value null-data output, the change script decodes
\* to no address, or (NAME_PREORDER) the third output does not pay the burn
\* address; otherwise it returns a fee pair.
C4_FeeRejection ==
    (fn = "get_fees" /\ pc = "done") =>
        IF Rejected(opcode, args.outputs) THEN ret = Sentinel
        ELSE ret.status = "ok" /\ Len(ret.val) = 2

C4_Witness ==
    /\ fn = "get_fees" /\ pc = "done" /\ opcode = "NAME_PREORDER"
    /\ Len(args.outputs) = 3
    /\ args.outputs[1].script_hex.type = "nulldata" /\ args.outputs[1].value = 0
    /\ args.outputs[2].script_hex.type = "p2pkh"
    /\ args.outputs[3].script_hex.type = "p2pkh"
    /\ args.outputs[3].script_hex.addr # BLOCKSTACK_BURN_ADDRESS
    /\ ret = Sentinel

BadName(n) ==
    /\ n # None
    /\ \/ Contains(n, "+")
       \/ Count(n, ".") > 1
       \/ \E i \in 1..Len(n) : n[i] \notin B40_CHARS
       \/ NAME_SCHEME_LEN + Len(n) > LENGTHS.blockchain_id_name

\* C5: build of NAME_PREORDER and NAME_UPDATE fails for every name that
\* contains '+', more than one '.', a character outside the name alphabet,
\* or that is too long with the scheme prefix, whatever the other arguments.
C5_BuildRejectsNames ==
    (fn = "build" /\ opcode \in {"NAME_PREORDER", "NAME_UPDATE"} /\ pc = "done"
        /\ BadName(args.name)) => ret.status = "raise"

\* a hash field build encodes that is not valid hex of the required length
BadHash(op, a) ==
    CASE op = "ANNOUNCE" -> ~ValidHex(a.hash, 40)
      [] op = "NAME_PREORDER" ->
            \/ ~ValidHex(a.consensus_hash, 32)
            \/ a.name_hash # None /\ ~ValidHex(a.name_hash, 40)
      [] op = "NAME_UPDATE" -> ~ValidHex(a.hash, 40)

\* C6: build fails whenever a hash field it encodes is not valid hex of the
\* required length, so every payload it returns is the 3-byte frame and a
\* body of the opcode's fixed length.
C6_BuildRejectsHashes ==
    (fn = "build" /\ pc = "done") =>
        /\ BadHash(opcode, args) => ret.status = "raise"
        /\ ret.status = "ok" => Len(ret.val) = 2 * (3 + BodyLen(opcode))

\* C7: NAME_PREORDER make_outputs returns [null-data 0, change to the sender,
\* burn to the burn address] with value[2] = max(fee, dust_unit) and
\* value[1] = total input value - value[2] - dust_fee.
C7_PreorderLayout ==
    (fn = "make_outputs" /\ opcode = "NAME_PREORDER" /\ pc = "done") =>
        /\ ret.status = "ok"
        /\ Len(ret.val) = 3
        /\ ret.val[1].script_hex.type = "nulldata" /\ ret.val[1].value = 0
        /\ ret.val[1].script_hex.data[2] = args.data
        /\ ret.val[2].script_hex = make_pay_to_address_script(args.address)
        /\ ret.val[3].script_hex = make_pay_to_address_script(BLOCKSTACK_BURN_ADDRESS)
        /\ ret.val[3].value >= args.fee /\ ret.val[3].value >= DEFAULT_DUST_FEE
        /\ ret.val[3].value \in {args.fee, DEFAULT_DUST_FEE}
        /\ ret.val[2].value =
              SumValues(args.inputs) - ret.val[3].value
              - ((Len(args.inputs) + 2) * DEFAULT_DUST_FEE + DEFAULT_OP_RETURN_FEE)

C7_Witness ==
    /\ fn = "make_outputs" /\ opcode = "NAME_PREORDER" /\ pc = "done"
    /\ args.fee < DEFAULT_DUST_FEE
    /\ Len(args.inputs) = 2
    /\ ret.val[3].value = DEFAULT_DUST_FEE
    /\ ret.val[2].value = SumValues(args.inputs) - 4 * DEFAULT_DUST_FEE
                          - (DEFAULT_DUST_FEE + DEFAULT_OP_RETURN_FEE)

\* the semantic fields of a request are well formed
WellFormed(op, a) ==
    CASE op = "ANNOUNCE" -> ValidHex(a.hash, 40)
      [] op = "NAME_PREORDER" -> ValidName(a.name) /\ ValidHex(a.consensus_hash, 32)
      [] op = "NAME_UPDATE" ->
            ValidName(a.name) /\ ValidHex(a.consensus_hash, 32) /\ ValidHex(a.hash, 40)

Invoked(op) == \E i \in 1..Len(calls) : calls[i].op = op

\* C8: a subsidized request (a public key is supplied) with well-formed
\* fields gets outputs laid out with dust_fee = 0 and op_fee = 0: the
\* change output carries the whole input value, and the null-data output
\* the payload build returns for the fields.
C8_SubsidizedLayout ==
    (fn = "state_transition" /\ pc = "done" /\ args.public_key # None
        /\ WellFormed(opcode, args)) =>
        /\ ret.status = "ok"
        /\ ret.val.outputs[1].script_hex.data[2] = locals.nulldata
        /\ ret.val.outputs[1].value = 0
        /\ ret.val.outputs[2].value = SumValues(ret.val.inputs)

\* C9: a broadcast with a public key supplied and well-formed fields returns
\* only {unsigned_tx}, and neither the signer nor the broadcaster is invoked.
C9_SubsidizedBroadcast ==
    (fn = "broadcast" /\ args.public_key # None /\ WellFormed(opcode, args)) =>
        /\ ~Invoked("tx_serialize_sign") /\ ~Invoked("broadcast_transaction")
        /\ pc = "done" =>
              /\ ret.status = "ok"
              /\ DOMAIN ret.val = {"unsigned_tx"}
              /\ ret.val.unsigned_tx = tx_serialize(locals.inputs, locals.outputs)

\* C10: a broadcast with a private key, no public key, tx_only false and
\* well-formed fields signs (inputs, outputs) with that key, hands the signed
\* serialization to the broadcaster exactly once and returns the receipt
\* with the payload under 'data'.
C10_FeePayingBroadcast ==
    (fn = "broadcast" /\ pc = "done" /\ args.private_key # None
        /\ args.public_key = None /\ ~args.tx_only /\ WellFormed(opcode, args)) =>
        /\ ret.status = "ok"
        /\ Cardinality({i \in 1..Len(calls) : calls[i].op = "broadcast_transaction"}) = 1
        /\ \E i \in 1..Len(calls) :
              /\ calls[i].op = "broadcast_transaction"
              /\ calls[i].arg = <<tx_serialize_sign(locals.inputs, locals.outputs,
                                                    args.private_key)>>
        /\ DOMAIN ret.val = {"receipt", "data"}
        /\ ret.val.data = locals.nulldata

MissingKeyReasons ==
    {"Missing both public and private key",
     "Missing both client public and private key"}

\* C11: a state_transition or broadcast called with neither a private nor a
\* public key ends in an error whose reason is 'Missing both ... public and
\* private key'; no collaborator (input selection, signer, broadcaster) is
\* invoked and no inputs or outputs are produced.
C11_MissingKeysFatal ==
    (IsRequest /\ args.private_key = None /\ args.public_key = None) =>
        /\ pc \in {"call", "done"}
        /\ calls = <<>>
        /\ locals.inputs = <<>> /\ locals.outputs = <<>>
        /\ pc = "done" => ret.status = "raise" /\ ret.val \in MissingKeyReasons

C11_Witness ==
    /\ fn = "broadcast" /\ opcode = "ANNOUNCE" /\ pc = "done"
    /\ args.private_key = None /\ args.public_key = None
    /\ ~args.tx_only
    /\ ~WellFormed(opcode, args)
    /\ ret = Raise("Missing both public and private key")
    /\ calls = <<>>

\* the public key of the key a request was given
SuppliedPublicKey(a) ==
    IF a.public_key # None THEN a.public_key ELSE PublicKeyOf(a.private_key)

\* C12: in a NAME_PREORDER state_transition or broadcast, once the key is
\* resolved the script_pubkey is that of the key supplied (the subsidy public
\* key if given, else the public key of the private key), and the request
\* goes on to build a payload.
C12_PreorderOwnershipKey ==
    (IsRequest /\ opcode = "NAME_PREORDER"
        /\ ~(args.private_key = None /\ args.public_key = None)
        /\ pc \notin {"call", "resolve"}) =>
        /\ locals.script_pubkey = get_script_pubkey(SuppliedPublicKey(args))
        /\ (pc = "done" /\ WellFormed(opcode, args)) => locals.nulldata # None

InputSelection == {"get_tx_inputs", "get_unspents"}

\* C13: the steps of a request come in the order validate, resolve key,
\* select inputs, build payload, lay out outputs, then sign-and-broadcast or
\* return unsigned: the input source is asked first and once, signing comes
\* before broadcasting, and a request with malformed semantic fields ends in
\* its error without the input source having been asked.
C13_PipelineOrder ==
    IsRequest =>
        /\ \A i \in 1..Len(calls) : calls[i].op \in InputSelection <=> i = 1
        /\ \A i, j \in 1..Len(calls) :
              (calls[i].op = "tx_serialize_sign"
                 /\ calls[j].op = "broadcast_transaction") => i < j
        /\ ~WellFormed(opcode, args) =>
              /\ calls = <<>>
              /\ pc = "done" => ret.status = "raise"

RECURSIVE SumOutputValues(_)
SumOutputValues(outputs) ==
    IF outputs = <<>> THEN 0
    ELSE Head(outputs).value + SumOutputValues(Tail(outputs))

\* what an output list sends to the burn address
BurnValue(outputs) ==
    SumOutputValues(SelectSeq(outputs,
        LAMBDA o : script_hex_to_address(o.script_hex) = BLOCKSTACK_BURN_ADDRESS))

\* C14: in every output list make_outputs lays out in fee-paying mode, the
\* value withheld from the outputs (total input value minus the sum of the
\* output values) is the dust_fee get_fees reports for the list, and the
\* value sent to the burn address is the op_fee it reports.  Stated for the
\* input lists that cover what is billed (no output value is negative).
C14_FeeAccounting ==
    (fn = "make_outputs" /\ pc = "replayed" /\ FeePaying(opcode, args)
        /\ \A i \in 1..Len(ret.val) : ret.val[i].value >= 0) =>
        /\ locals.fees.status = "ok"
        /\ SumValues(args.inputs) - SumOutputValues(ret.val) = locals.fees.val[1]
        /\ BurnValue(ret.val) = locals.fees.val[2]

====
